---- MODULE Spec2Model ----
(***************************************************************************)
(* Model of src/app.py (ISS position checker backend).                     *)
(*                                                                         *)
(* Three parts of the program carry the checked properties:                *)
(*   - az_to_cardinal_pl  (lines 170-177), a pure function;                *)
(*   - the pass-building loop and the truncation of api_passes             *)
(*     (lines 317-362);                                                    *)
(*   - get_tle and the process-wide _tle_cache (lines 39, 73-86), called   *)
(*     by every /api/passes request, which FastAPI runs on a thread pool.  *)
(*                                                                         *)
(* Units: instants are integer minutes counted from the start of the       *)
(* prediction window (UTC); altitudes are hundredths of a degree; rounded  *)
(* elevations are tenths of a degree; azimuths are tenths of a degree;     *)
(* the wall clock of get_tle is in seconds.                                *)
(***************************************************************************)
EXTENDS Integers, Sequences, FiniteSets, TLC

VARIABLES
    \* ---- api_passes ----
    ppc,        \* position of the request: "loop" (line 320) or "done" (after line 358)
    seen,       \* the (t, e) pairs of zip(times, events) consumed so far
    current,    \* the dict `current` (line 318)
    out,        \* the list `out` (line 317)
    built,      \* for every entry of out, the value of `current` when it was appended
    passes,     \* the "passes" entry of the response (line 361)
    \* ---- az_to_cardinal_pl ----
    az_deg,     \* the argument
    az_res,     \* the returned label, "" before the call
    \* ---- get_tle ----
    now,        \* time.time(), in seconds
    nticks,     \* how many times the clock advanced
    nfetch,     \* how many HTTP responses were received
    ncalls,     \* how many get_tle calls were started
    tle_cache,  \* the dict _tle_cache (line 39)
    pc,         \* per thread: position inside get_tle
    l_now,      \* per thread: the local `now` (line 74)
    l_data,     \* per thread: the locals name, line1, line2 (lines 79-81)
    l_ret       \* per thread: the outcome of the call

pvars == <<ppc, seen, current, out, built, passes>>
avars == <<az_deg, az_res>>
tvars == <<now, nticks, nfetch, ncalls, tle_cache, pc, l_now, l_data, l_ret>>
vars == <<ppc, seen, current, out, built, passes, az_deg, az_res,
          now, nticks, nfetch, ncalls, tle_cache, pc, l_now, l_data, l_ret>>

Min(a, b) == IF a < b THEN a ELSE b

(***************************************************************************)
(* Configuration (lines 19-35)                                             *)
(***************************************************************************)
\* MIN_ELEV_DEG = 10.0, in hundredths of a degree
MIN_ELEV_DEG == 1000

\* the result cap of out[:10]
RESULT_CAP == 10

\* TLE_TTL_SECONDS = 6 * 3600
TLE_TTL_SECONDS == 6 * 3600

(***************************************************************************)
(* Bounds of the model                                                     *)
(***************************************************************************)
\* events the finder delivers in one request (free-form sequences)
MaxEvents == 5
\* largest distance in minutes between two consecutive events
MaxGap == 2
\* events the finder delivers in one request (well-formed passes only)
MaxCapEvents == 25
\* minute of the UTC day at which the prediction window starts
StartMinute == 1378
\* first minute of the window at which Warsaw is back on winter time
DstEnd == 4

\* altitudes (hundredths of a degree) the satellite has at a culmination;
\* 20.25 is a float that lies exactly halfway between 20.2 and 20.3
Elevs == {2025, 6377}

\* azimuths (tenths of a degree) az_to_cardinal_pl is applied to:
\* -AzBelow .. AzMax
AzBelow == 1800
AzMax == 7200

\* clock advances, get_tle calls and HTTP responses in one run
MaxTicks == 3
MaxCalls == 3
MaxFetch == 3
\* time.time() when the process starts
StartNow == 21600


(***************************************************************************)
(* Python helpers                                                          *)
(***************************************************************************)
\* int(n / d) for d > 0: truncation towards zero
PyInt(n, d) == IF n >= 0 THEN n \div d ELSE -((-n) \div d)

\* round(x, 1) of a non-negative float given in hundredths, result in
\* tenths: to the nearest tenth, an exact tie going to the even tenth
PyRound1(h) ==
    LET q == h \div 10
        r == h % 10
    IN  IF r < 5 THEN q
        ELSE IF r > 5 THEN q + 1
        ELSE IF q % 2 = 0 THEN q ELSE q + 1

\* d.get(k, default)
DictGet(d, k, default) == IF k \in DOMAIN d THEN d[k] ELSE default

\* d[k] = v
DictSet(d, k, v) == (k :> v) @@ d

\* the empty dict {}
EmptyDict == <<>>

(***************************************************************************)
(* az_to_cardinal_pl (lines 170-177); az in tenths of a degree             *)
(***************************************************************************)
dirs == << "polnocy", "polnocnego wschodu", "wschodu", "poludniowego wschodu",
           "poludnia", "poludniowego zachodu", "zachodu", "polnocnego zachodu" >>

\* the same function without the "+ 0.5" of line 176
az_to_cardinal_pl_trunc(az) ==
    dirs[(PyInt(2 * (az % 3600), 900) % 8) + 1]

\* idx = int((az_deg % 360) / 45.0 + 0.5) % 8; Python's % with a positive
\* divisor yields a value in [0, 360), as % does here
az_to_cardinal_pl(az) ==
    dirs[(PyInt(2 * (az % 3600) + 450, 900) % 8) + 1]

(***************************************************************************)
(* api_passes: the loop over zip(times, events) (lines 317-356) and the    *)
(* response (lines 358-362)                                                *)
(***************************************************************************)
\* t.utc_datetime().replace(tzinfo=timezone.utc): the instant t as an aware
\* UTC datetime; both are minutes from the start of the window
UtcDatetime(t) == t

\* dt.astimezone(WARSAW_TZ): local wall-clock minutes; UTC+2 in summer time,
\* UTC+1 from DstEnd on
AsWarsaw(dt_utc) == StartMinute + dt_utc + (IF dt_utc < DstEnd THEN 120 ELSE 60)

\* strftime("%d.%m"): the calendar day, counted from the day the window starts
StrfDate(local) == local \div 1440

\* strftime("%H:%M")
StrfTime(local) == << (local % 1440) \div 60, local % 60 >>

\* (satellite - observer).at(t).altaz()[1].degrees, in tenths of a degree:
\* the azimuth track of the satellite over the window
AltazAz(t) == (225 * t + 1350) % 3600

\* the dict appended to out (lines 334-355)
PassEntry(cur) ==
    LET start_dir == az_to_cardinal_pl(AltazAz(cur["start_t"]))
        end_dir   == az_to_cardinal_pl(AltazAz(cur["end_t"]))
        start_pl  == AsWarsaw(cur["start_utc"])
        end_pl    == AsWarsaw(cur["end_utc"])
    IN  [ date         |-> StrfDate(start_pl),
          time_from    |-> StrfTime(start_pl),
          time_to      |-> StrfTime(end_pl),
          direction    |-> << "z", start_dir, "na", end_dir >>,
          max_elev_deg |-> PyRound1(DictGet(cur, "max_elev_deg", 0)) ]

\* line 356 left out: current keeps the finished pass
AfterAppend_keep(cur) == cur

\* current = {} (line 356)
AfterAppend(cur) == EmptyDict

\* out[-10:] instead of out[:10]
Truncate_tail(o) ==
    [i \in 1..Min(RESULT_CAP, Len(o)) |-> o[Len(o) - Min(RESULT_CAP, Len(o)) + i]]

\* out[:10] (line 361)
Truncate(o) == [i \in 1..Min(RESULT_CAP, Len(o)) |-> o[i]]

\* one iteration of the loop for the pair (t, e); alt is what
\* (satellite - observer).at(t).altaz() gives as altitude at t
LoopBody(t, e, alt) ==
    LET dt_utc == UtcDatetime(t) IN
    /\ ppc = "loop"
    /\ seen' = Append(seen, [t |-> t, e |-> e, alt |-> alt])
    /\ IF e = 0 THEN
            /\ current' = [start_t |-> t, start_utc |-> dt_utc]
            /\ UNCHANGED <<out, built>>
       ELSE IF e = 1 /\ current # EmptyDict THEN
            /\ current' = DictSet(DictSet(current, "max_utc", dt_utc),
                                  "max_elev_deg", alt)
            /\ UNCHANGED <<out, built>>
       ELSE IF e = 2 /\ current # EmptyDict THEN
            LET cur == DictSet(DictSet(current, "end_t", t), "end_utc", dt_utc) IN
            /\ out' = Append(out, PassEntry(cur))
            /\ built' = Append(built, cur)
            /\ current' = AfterAppend(cur)
       ELSE UNCHANGED <<current, out, built>>
    /\ UNCHANGED <<ppc, passes>>

\* instant of the last event delivered, 0 (the window start) before the first
LastT == IF seen = <<>> THEN 0 ELSE seen[Len(seen)].t

\* kind of the last event delivered, 2 before the first
LastE == IF seen = <<>> THEN 2 ELSE seen[Len(seen)].e

\* find_events (line 315) delivers the next pair: events: 0=rise,
\* 1=culminate, 2=set, at strictly increasing instants, in any order of kinds
Deliver ==
    \E e \in 0..2, gap \in 1..MaxGap, alt \in Elevs \cup {MIN_ELEV_DEG} :
        /\ Len(seen) < MaxEvents
        /\ (e = 1) <=> (alt \in Elevs)
        /\ LoopBody(LastT + gap, e, alt)
        /\ UNCHANGED <<avars, tvars>>

\* find_events delivers the next pair of a window made of complete passes
\* only: rise, at most one culmination, set
DeliverPass ==
    \E e \in 0..2, alt \in {6377, MIN_ELEV_DEG} :
        /\ Len(seen) < MaxCapEvents
        /\ (e = 1) <=> (alt \in Elevs)
        /\ CASE LastE = 2 -> e = 0
             [] LastE = 0 -> e \in {1, 2}
             [] LastE = 1 -> e = 2
        /\ LoopBody(LastT + 1, e, alt)
        /\ UNCHANGED <<avars, tvars>>

\* the sequence is exhausted: the response is built (lines 358-362)
Return ==
    /\ ppc = "loop"
    /\ ppc' = "done"
    /\ passes' = Truncate(out)
    /\ UNCHANGED <<seen, current, out, built, avars, tvars>>

(***************************************************************************)
(* get_tle and _tle_cache (lines 39, 43-46, 73-86)                         *)
(***************************************************************************)
\* the request handlers that run get_tle, each on its own pool thread
Threads == {1, 2}

\* Python values of the cache fields and of the JSON fields: None, the empty
\* string, or a non-empty string; id is the number of the HTTP response the
\* string came with
None == [kind |-> "none", text |-> "", id |-> 0]
EmptyStr == [kind |-> "empty", text |-> "", id |-> 0]
Str(text, id) == [kind |-> "str", text |-> text, id |-> id]

\* truth value of a Python value: None and "" are false
Truthy(v) == v.kind = "str"

\* a or b
PyOr(a, b) == IF Truthy(a) THEN a ELSE b

\* the JSON bodies response number k may carry: every key may be missing
\* (data.get gives None), empty, or a non-empty string
Responses(k) ==
    [ name  : {None, EmptyStr, Str("name", k)},
      line1 : {None, EmptyStr, Str("line1", k)},
      line2 : {None, EmptyStr, Str("line2", k)} ]

\* _tle_cache = {"ts": 0, "name": None, "line1": None, "line2": None}
InitCache == [ts |-> 0, name |-> None, line1 |-> None, line2 |-> None]

\* outcome of a get_tle call: nothing yet, a returned triple (from the cache
\* or from a fetch), or an exception (raised by fetch_json, or the 502)
NoRet == [kind |-> "none", via |-> "", name |-> None, line1 |-> None, line2 |-> None]
Returned(via, name, line1, line2) ==
    [kind |-> "ok", via |-> via, name |-> name, line1 |-> line1, line2 |-> line2]
Raised(via) ==
    [kind |-> "error", via |-> via, name |-> None, line1 |-> None, line2 |-> None]

\* the locals name, line1, line2 (and the tuple under construction at line
\* 76) while they hold nothing: before assignment and after the call ended
NoData == [name |-> None, line1 |-> None, line2 |-> None]

\* "now - ts <= TLE_TTL_SECONDS" instead of "<"
Fresh_le(n, ts) == n - ts <= TLE_TTL_SECONDS

\* now - _tle_cache["ts"] < TLE_TTL_SECONDS (line 75)
Fresh(n, ts) == n - ts < TLE_TTL_SECONDS

\* "if not line1" instead of "if not (line1 and line2)"
Complete_line1(line1, line2) == Truthy(line1)

\* line1 and line2 (line 82)
Complete(line1, line2) == Truthy(line1) /\ Truthy(line2)

\* time passes
Tick ==
    /\ nticks < MaxTicks
    /\ \E d \in {1, TLE_TTL_SECONDS - 1} : now' = now + d
    /\ nticks' = nticks + 1
    /\ UNCHANGED <<nfetch, ncalls, tle_cache, pc, l_now, l_data, l_ret>>
    /\ UNCHANGED <<pvars, avars>>

\* a request enters get_tle: now = int(time.time()) (line 74)
Call(th) ==
    /\ pc[th] = "idle"
    /\ ncalls < MaxCalls
    /\ ncalls' = ncalls + 1
    /\ l_now' = [l_now EXCEPT ![th] = now]
    /\ l_data' = [l_data EXCEPT ![th] = NoData]
    /\ l_ret' = [l_ret EXCEPT ![th] = NoRet]
    /\ pc' = [pc EXCEPT ![th] = "chk_line1"]
    /\ UNCHANGED <<now, nticks, nfetch, tle_cache>>
    /\ UNCHANGED <<pvars, avars>>

\* if _tle_cache["line1"] and ... (line 75, left operand)
ChkLine1(th) ==
    /\ pc[th] = "chk_line1"
    /\ pc' = [pc EXCEPT ![th] = IF Truthy(tle_cache.line1) THEN "chk_ts" ELSE "fetch"]
    /\ UNCHANGED <<now, nticks, nfetch, ncalls, tle_cache, l_now, l_data, l_ret>>
    /\ UNCHANGED <<pvars, avars>>

\* ... and (now - _tle_cache["ts"] < TLE_TTL_SECONDS) (line 75, right operand)
ChkTs(th) ==
    /\ pc[th] = "chk_ts"
    /\ pc' = [pc EXCEPT ![th] = IF Fresh(l_now[th], tle_cache.ts) THEN "ret_name" ELSE "fetch"]
    /\ UNCHANGED <<now, nticks, nfetch, ncalls, tle_cache, l_now, l_data, l_ret>>
    /\ UNCHANGED <<pvars, avars>>

\* return _tle_cache["name"], ... (line 76, first element of the tuple)
RetName(th) ==
    /\ pc[th] = "ret_name"
    /\ l_data' = [l_data EXCEPT ![th].name = tle_cache.name]
    /\ pc' = [pc EXCEPT ![th] = "ret_line1"]
    /\ UNCHANGED <<now, nticks, nfetch, ncalls, tle_cache, l_now, l_ret>>
    /\ UNCHANGED <<pvars, avars>>

\* ..., _tle_cache["line1"], ... (line 76, second element)
RetLine1(th) ==
    /\ pc[th] = "ret_line1"
    /\ l_data' = [l_data EXCEPT ![th].line1 = tle_cache.line1]
    /\ pc' = [pc EXCEPT ![th] = "ret_line2"]
    /\ UNCHANGED <<now, nticks, nfetch, ncalls, tle_cache, l_now, l_ret>>
    /\ UNCHANGED <<pvars, avars>>

\* ..., _tle_cache["line2"] (line 76, third element), and the return
RetLine2(th) ==
    /\ pc[th] = "ret_line2"
    /\ l_ret' = [l_ret EXCEPT ![th] =
                    Returned("cache", l_data[th].name, l_data[th].line1, tle_cache.line2)]
    /\ l_data' = [l_data EXCEPT ![th] = NoData]
    /\ pc' = [pc EXCEPT ![th] = "idle"]
    /\ UNCHANGED <<now, nticks, nfetch, ncalls, tle_cache, l_now>>
    /\ UNCHANGED <<pvars, avars>>

\* fetch_json(TLE_URL) raises: the request failed or raise_for_status()
\* rejected the status (lines 44-45); the exception leaves get_tle
FetchRaises(th) ==
    /\ pc[th] = "fetch"
    /\ nfetch < MaxFetch
    /\ nfetch' = nfetch + 1
    /\ l_ret' = [l_ret EXCEPT ![th] = Raised("fetch_json")]
    /\ pc' = [pc EXCEPT ![th] = "idle"]
    /\ UNCHANGED <<now, nticks, ncalls, tle_cache, l_now, l_data>>
    /\ UNCHANGED <<pvars, avars>>

\* fetch_json(TLE_URL) returns a body; lines 78-83 on the locals
FetchReturns(th) ==
    /\ pc[th] = "fetch"
    /\ nfetch < MaxFetch
    /\ nfetch' = nfetch + 1
    /\ \E data \in Responses(nfetch + 1) :
         LET name  == PyOr(data.name, Str("ISS (ZARYA)", nfetch + 1))
             line1 == data.line1
             line2 == data.line2
         IN  IF ~ Complete(line1, line2)
             THEN /\ l_ret' = [l_ret EXCEPT ![th] = Raised("502")]
                  /\ pc' = [pc EXCEPT ![th] = "idle"]
                  /\ UNCHANGED l_data
             ELSE /\ l_data' = [l_data EXCEPT ![th] =
                                   [name |-> name, line1 |-> line1, line2 |-> line2]]
                  /\ pc' = [pc EXCEPT ![th] = "update"]
                  /\ UNCHANGED l_ret
    /\ UNCHANGED <<now, nticks, ncalls, tle_cache, l_now>>
    /\ UNCHANGED <<pvars, avars>>

\* _tle_cache.update({...}) and the return (lines 85-86); dict.update with
\* string keys runs as one step of the interpreter
Update(th) ==
    /\ pc[th] = "update"
    /\ tle_cache' = [ts |-> l_now[th], name |-> l_data[th].name,
                     line1 |-> l_data[th].line1, line2 |-> l_data[th].line2]
    /\ l_ret' = [l_ret EXCEPT ![th] =
                    Returned("fetch", l_data[th].name, l_data[th].line1, l_data[th].line2)]
    /\ l_data' = [l_data EXCEPT ![th] = NoData]
    /\ pc' = [pc EXCEPT ![th] = "idle"]
    /\ UNCHANGED <<now, nticks, nfetch, ncalls, l_now>>
    /\ UNCHANGED <<pvars, avars>>

\* one step of get_tle on thread th
GetTleStep(th) ==
    \/ Call(th)
    \/ ChkLine1(th)
    \/ ChkTs(th)
    \/ RetName(th)
    \/ RetLine1(th)
    \/ RetLine2(th)
    \/ FetchRaises(th)
    \/ FetchReturns(th)
    \/ Update(th)

(***************************************************************************)
(* az_to_cardinal_pl applied to an input                                   *)
(***************************************************************************)
Apply ==
    /\ az_res = ""
    /\ az_res' = az_to_cardinal_pl(az_deg)
    /\ UNCHANGED <<az_deg, pvars, tvars>>

(***************************************************************************)
(* Specifications                                                          *)
(***************************************************************************)
InitPasses ==
    /\ ppc = "loop"
    /\ seen = <<>>
    /\ current = EmptyDict
    /\ out = <<>>
    /\ built = <<>>
    /\ passes = <<>>

InitTle ==
    /\ now = StartNow
    /\ nticks = 0
    /\ nfetch = 0
    /\ ncalls = 0
    /\ tle_cache = InitCache
    /\ pc = [th \in Threads |-> "idle"]
    /\ l_now = [th \in Threads |-> 0]
    /\ l_data = [th \in Threads |-> NoData]
    /\ l_ret = [th \in Threads |-> NoRet]

Init == InitPasses /\ InitTle /\ az_deg = 0 /\ az_res = ""

InitAz == InitPasses /\ InitTle /\ az_deg \in (-AzBelow)..AzMax /\ az_res = ""

\* one /api/passes request over any sequence of events
Next == Deliver \/ Return
Spec == Init /\ [][Next]_vars

\* one /api/passes request over a window of complete passes
NextCap == DeliverPass \/ Return
SpecCap == Init /\ [][NextCap]_vars

\* az_to_cardinal_pl on every azimuth of -AzBelow..AzMax
SpecAz == InitAz /\ [][Apply]_vars

\* get_tle calls one after the other
NextTle == Tick \/ GetTleStep(1)
SpecTle == Init /\ [][NextTle]_vars

\* get_tle calls of two concurrent requests
NextTleConc == Tick \/ \E th \in Threads : GetTleStep(th)
SpecTleConc == Init /\ [][NextTleConc]_vars

(***************************************************************************)
(* Properties                                                              *)
(***************************************************************************)
\* indices of the Sets of s that close an open Rise: a Rise comes before
\* them with no other Set in between
ClosingSets(s) ==
    { j \in 1..Len(s) :
        /\ s[j].e = 2
        /\ \E i \in 1..(j - 1) :
              /\ s[i].e = 0
              /\ \A k \in (i + 1)..(j - 1) : s[k].e # 2 }

\* C1: a pass is emitted only for a Set that closes an open Rise: the number
\* of passes built equals the number of such Sets in the events consumed,
\* and every pass ends at such a Set and starts at a Rise before it.
C1_PassOnlyForSetClosingRise ==
    /\ Len(out) = Cardinality(ClosingSets(seen))
    /\ Len(built) = Len(out)
    /\ \A i \in 1..Len(built) :
          \E j \in ClosingSets(seen) :
              /\ seen[j].t = built[i]["end_t"]
              /\ \E r \in 1..(j - 1) :
                    seen[r].e = 0 /\ seen[r].t = built[i]["start_t"]

\* C1 witness: Set, Rise, Set, Rise was consumed: the first Set and the last
\* Rise give no pass, the middle pair gives one.
C1_Witness ==
    /\ ppc = "done"
    /\ Len(seen) = 4
    /\ seen[1].e = 2 /\ seen[2].e = 0 /\ seen[3].e = 2 /\ seen[4].e = 0
    /\ Len(out) = 1

\* C2: no pass is returned with a maximum elevation below MIN_ELEV_DEG
\* (max_elev_deg is in tenths, MIN_ELEV_DEG in hundredths of a degree).
C2_NoPassBelowMinElev ==
    ppc = "done" =>
        \A i \in 1..Len(passes) : passes[i].max_elev_deg * 10 >= MIN_ELEV_DEG

\* C3: every returned pass has a recorded culmination instant, strictly
\* after its start and strictly before its end.
C3_StartBeforeCulminateBeforeEnd ==
    ppc = "done" =>
        \A i \in 1..Len(passes) :
            /\ "max_utc" \in DOMAIN built[i]
            /\ built[i]["start_utc"] < built[i]["max_utc"]
            /\ built[i]["max_utc"] < built[i]["end_utc"]

\* altitudes of the Culminate events of s strictly between instants a and b
CulminationsBetween(s, a, b) ==
    { s[k].alt : k \in { n \in 1..Len(s) : s[n].e = 1 /\ a < s[n].t /\ s[n].t < b } }

\* largest element of a non-empty set of integers
SetMax(S) == CHOOSE m \in S : \A x \in S : x <= m

\* C4: when several Culminate events lie between the Rise and the Set of a
\* returned pass, its max_elev_deg is the largest of their elevations,
\* rounded to one decimal.
C4_MaxElevIsLargestCulmination ==
    ppc = "done" =>
        \A i \in 1..Len(passes) :
            LET cs == CulminationsBetween(seen, built[i]["start_t"], built[i]["end_t"]) IN
            Cardinality(cs) >= 2 => passes[i].max_elev_deg = PyRound1(SetMax(cs))

\* C5: consecutive passes are disjoint and strictly ordered in time: each
\* pass ends strictly before the next one starts.
C5_PassesDisjointOrdered ==
    \A i \in 1..(Len(built) - 1) :
        built[i]["end_utc"] < built[i + 1]["start_utc"]

\* C5 witness: a response with at least two passes.
C5_Witness ==
    /\ ppc = "done"
    /\ Len(passes) >= 2
    /\ built[1]["end_utc"] < built[2]["start_utc"]

\* round(n / d) for d > 0, a tie going up (towards plus infinity)
RoundHalfUp(n, d) == (2 * n + d) \div (2 * d)

\* round(n / d) for d > 0 as Python's round does it: a tie goes to the even
\* integer
RoundHalfEven(n, d) ==
    LET q == n \div d
        r == n % d
    IN  IF 2 * r < d THEN q
        ELSE IF 2 * r > d THEN q + 1
        ELSE IF q % 2 = 0 THEN q ELSE q + 1

\* C6 (as amended): for every azimuth az_to_cardinal_pl selects the point
\* with index round(azimuth/45) mod 8 of N, NE, E, SE, S, SW, W, NW, where an
\* azimuth exactly halfway between two sectors is rounded up (22.5 gives
\* NE); 0 gives the first point and 360 the same point as 0.
C6_CompassIndexRoundsHalfUp ==
    az_res # "" =>
        /\ az_res = dirs[(RoundHalfUp(az_deg, 450) % 8) + 1]
        /\ (az_deg = 0 => az_res = dirs[1])
        /\ (az_deg = 3600 => az_res = dirs[1])

\* C6 witness: the function was applied to 22.5 degrees and gave the second
\* point.
C6_Witness == az_deg = 225 /\ az_res = dirs[2]

\* C6 as stated, round being the round of the program's language (ties to
\* even): the index is round(azimuth/45) mod 8 for every azimuth.
C6_CompassIndexRoundsHalfEven ==
    az_res # "" => az_res = dirs[(RoundHalfEven(az_deg, 450) % 8) + 1]

\* C7: the returned list has min(10, number of completed passes) entries,
\* they are the first entries of the list of completed passes in their
\* order, and every pass left out starts after the last one returned ends.
C7_TruncatedToEarliestTen ==
    ppc = "done" =>
        /\ Len(passes) = Min(RESULT_CAP, Cardinality(ClosingSets(seen)))
        /\ \A i \in 1..Len(passes) : passes[i] = PassEntry(built[i])
        /\ \A j \in (Len(passes) + 1)..Len(built) :
              built[Len(passes)]["end_utc"] < built[j]["start_utc"]

\* C7 witness: more than ten passes were completed and ten are returned.
C7_Witness ==
    /\ ppc = "done"
    /\ Len(out) > RESULT_CAP
    /\ Len(passes) = RESULT_CAP

\* the cache would be answered from: populated and younger than the TTL
CacheHit(th) ==
    /\ tle_cache.line1 # None
    /\ tle_cache.line1 # EmptyStr
    /\ l_now[th] - tle_cache.ts < TLE_TTL_SECONDS

\* C8: a get_tle call that has to fetch and whose fetch fails, or yields a
\* missing or empty line1 or line2, ends in an error and leaves _tle_cache
\* unchanged; it never returns the cached lines; every triple returned, and
\* every triple stored in the cache, has non-empty line1 and line2.
C8_FetchFailureIsAnError ==
    [][ \A th \in Threads :
          /\ (l_ret'[th].kind = "ok") =>
                 /\ l_ret'[th].line1.kind = "str"
                 /\ l_ret'[th].line2.kind = "str"
          /\ (pc[th] = "fetch" /\ pc'[th] = "idle") =>
                 /\ l_ret'[th].kind = "error"
                 /\ tle_cache' = tle_cache
          /\ (pc[th] = "fetch" /\ pc'[th] = "update") =>
                 /\ l_data'[th].line1.kind = "str"
                 /\ l_data'[th].line2.kind = "str"
                 /\ l_data'[th].line1.id = nfetch'
                 /\ l_data'[th].line2.id = nfetch'
          /\ (pc[th] = "update" /\ pc'[th] = "idle") =>
                 /\ l_ret'[th] = Returned("fetch", l_data[th].name,
                                          l_data[th].line1, l_data[th].line2)
          /\ (tle_cache' # tle_cache) =>
                 /\ tle_cache'.line1.kind = "str"
                 /\ tle_cache'.line2.kind = "str"
      ]_vars

\* C8 witness: the cache was populated and had expired, the call had to
\* fetch, the fetch failed, and the call ended in an error.
C8_Witness ==
    /\ l_ret[1].kind = "error"
    /\ tle_cache.line1.kind = "str"
    /\ l_now[1] - tle_cache.ts >= TLE_TTL_SECONDS

\* C9: the first call fetches; a call returns the cached triple without
\* fetching exactly when the cache is populated and now - ts < 21600;
\* otherwise it fetches, and a successful fetch replaces ts, name, line1 and
\* line2 together, ts becoming the call's now.
C9_CacheLifecycle ==
    [][ \A th \in {1} :
          /\ (pc'[th] \in {"ret_name", "ret_line1", "ret_line2"}) =>
                 /\ CacheHit(th)'
                 /\ ncalls' > 1
          /\ (pc'[th] \in {"fetch", "update"}) => ~ CacheHit(th)'
          /\ (pc[th] = "ret_line2" /\ pc'[th] = "idle") =>
                 /\ l_ret'[th] = Returned("cache", tle_cache.name,
                                          tle_cache.line1, tle_cache.line2)
                 /\ tle_cache' = tle_cache
          /\ (pc[th] = "update" /\ pc'[th] = "idle") =>
                 /\ tle_cache'.ts = l_now[th]
                 /\ tle_cache'.name = l_ret'[th].name
                 /\ tle_cache'.line1 = l_ret'[th].line1
                 /\ tle_cache'.line2 = l_ret'[th].line2
                 /\ tle_cache'.name.id = nfetch
                 /\ tle_cache'.line1.id = nfetch
                 /\ tle_cache'.line2.id = nfetch
          /\ (nfetch' # nfetch) => pc[th] = "fetch"
      ]_vars

\* C9 witness: a call made exactly TLE_TTL_SECONDS after the cache was
\* filled has fetched and is about to replace the cache.
C9_Witness ==
    /\ pc[1] = "update"
    /\ tle_cache.line1.kind = "str"
    /\ l_now[1] - tle_cache.ts = TLE_TTL_SECONDS

\* C10: under every interleaving of concurrent get_tle calls, the three
\* parts of a returned triple come from one single fetch response.
C10_TripleFromOneFetch ==
    \A th \in Threads :
        l_ret[th].kind = "ok" =>
            /\ l_ret[th].name.id = l_ret[th].line1.id
            /\ l_ret[th].line1.id = l_ret[th].line2.id

====
